---- MODULE Spec2Model ----
(***************************************************************************)
(* A model of the Strava dashboard (login.py, app_strava.py).              *)
(*                                                                         *)
(*  Spec         the Streamlit session of login.py: script runs triggered  *)
(*               by page loads, button clicks, widget reruns and           *)
(*               st.rerun(), over the session state, the query parameters  *)
(*               and the clock.                                            *)
(*  SpecFetch    the pagination loop of carregar_todas_atividades.         *)
(*  SpecFetchFair  the same loop, which runs on until it returns.          *)
(*  SpecTratar   tratar_dados applied to one activity row.                 *)
(*  SpecCache    the calls of one API loader through st.cache_data, in a   *)
(*               session that logs in and out while time passes.           *)
(*                                                                         *)
(* Python values: an optional value (a dict key that may be missing, a     *)
(* result that may be None) is a sequence of length 0 or 1: None is <<>>,  *)
(* a present value v is <<v>>.  A dict is a record of optional values.     *)
(***************************************************************************)
EXTENDS Integers, Sequences, FiniteSets, TLC

VARIABLES
    session_state,  \* st.session_state of the browser session
    query_params,   \* st.query_params of the browser session
    now,            \* time.time()
    secrets,        \* st.secrets: CLIENT_ID, CLIENT_SECRET
    pending,        \* st.rerun() was called: the script runs again at once
    rendered,       \* the buttons the last script run rendered
    run,            \* what the last script run did (observation only)
    pagina,            \* carregar_todas_atividades: the page to request next
    todas_atividades,  \* the activities collected so far
    requests,          \* the GET requests issued, in order (observation only)
    responses,         \* the answers to them, in order (observation only)
    resultado,         \* None while the loop runs, then the value returned
    row,               \* tratar_dados: one activity of df_bruto
    tratado,           \* None, then the activity's derived columns
    loader,            \* st.cache_data: the cached function that is called
    cache,             \* its cache: for each tuple of arguments, None or an entry
    call               \* what the last call of it did (observation only)

loginVars == <<session_state, query_params, now, secrets, pending, rendered, run>>

fetchVars == <<pagina, todas_atividades, requests, responses, resultado>>

tratarVars == <<row, tratado>>

cacheVars == <<loader, cache, call>>

vars == <<loginVars, fetchVars, tratarVars, cacheVars>>

-----------------------------------------------------------------------------
(* Optional values and dicts                                               *)

None == <<>>

Some(v) == <<v>>

Has(d, k) == d[k] # None

Val(d, k) == d[k][1]

Put(d, k, v) == [d EXCEPT ![k] = Some(v)]

Pop(d, k) == [d EXCEPT ![k] = None]

\* bool(d) of a dict: it has at least one key
TruthyDict(d) == \E k \in DOMAIN d : Has(d, k)

\* bool(s) of a string
TruthyStr(s) == s # ""

-----------------------------------------------------------------------------
(* Bounds and input sets                                                   *)

\* the clock advances in steps of 30 s, at most MaxTicks times
MaxTicks == 4

\* values of py_secrets.token_urlsafe(16) and of the callback's state
StateTokens == {"s1", "s2"}

\* The body of a successful token response: a JSON object.  It carries
\* access_token, which the script indexes without a default (line 190),
\* and refresh_token; expires_at, which is read with a default (line 45),
\* may be missing or 0.
TokenBodies ==
    {[access_token |-> Some("tokA"), expires_at |-> e, refresh_token |-> Some("r")] :
        e \in {None, Some(0), Some(90), Some(150)}}
    \cup {[access_token |-> Some("tokB"), expires_at |-> e, refresh_token |-> Some("r")] :
            e \in {Some(90), Some(150)}}

\* what one POST to the token endpoint answers: an error (raise_for_status
\* or a transport failure raises RequestException) or a JSON body
FailedResponse == [ok |-> FALSE, body |-> None]

HttpResponses == {FailedResponse} \cup {[ok |-> TRUE, body |-> Some(b)] : b \in TokenBodies}

\* the query strings a page is opened with (a plain visit, or Strava's redirect)
NoParams == [code |-> None, client_id |-> None, state |-> None]

QueryStrings ==
    {NoParams}
    \cup {[code |-> Some("c1"), client_id |-> c, state |-> s] :
            c \in {None, Some("cidU")}, s \in {None, Some("s1"), Some("s2")}}
    \cup {[code |-> None, client_id |-> Some("cidU"), state |-> None]}

\* what the user has typed in the text input the page shows
TypedTexts == {"", "usr"}

\* show_main_dashboard: it renders everything, or st.stop()s after a failed load
DashOutcomes == {"erro_atleta", "erro_atividades", "ok"}

SecretsSets == [CLIENT_ID : {"", "cid0"}, CLIENT_SECRET : {"", "sec0"}]

DEFAULT_REDIRECT_URI == "http://localhost:8501"

-----------------------------------------------------------------------------
(* login.py                                                                *)

SessionKeys ==
    {"logged_in", "strava_token_data", "client_config", "oauth_state", "auth_url",
     "client_id_pending"}

\* a session with no key
EmptySession == [k \in SessionKeys |-> None]

\* for key in list(st.session_state.keys()): del st.session_state[key]
ClearSession(ss) == [k \in DOMAIN ss |-> None]

\* st.session_state.get("logged_in")
LoggedIn(ss) == Has(ss, "logged_in") /\ Val(ss, "logged_in")

\* faulty variant: a failed POST is sent a second time
exchange_code_for_token_Retry(resp) ==
    [posts |-> IF resp.ok THEN <<"exchange">> ELSE <<"exchange", "exchange">>,
     ret |-> IF resp.ok THEN resp.body ELSE None]

\* exchange_code_for_token: one POST; response.json() or None
exchange_code_for_token(resp) ==
    [posts |-> <<"exchange">>, ret |-> IF resp.ok THEN resp.body ELSE None]

\* `if token_data:` on the value exchange_code_for_token returned
TokenAccepted(ret) == ret # None /\ TruthyDict(ret[1])

\* faulty variant: a token that expires in exactly 60 s still counts as valid
NeedsRefresh_Strict(token_data, t) ==
    LET expires_at == IF Has(token_data, "expires_at") THEN Val(token_data, "expires_at") ELSE 0
    IN  ~(expires_at # 0 /\ expires_at >= t + 60)

\* expires_at = token_data.get("expires_at", 0)
\* not (expires_at and expires_at > time.time() + 60)
NeedsRefresh(token_data, t) ==
    LET expires_at == IF Has(token_data, "expires_at") THEN Val(token_data, "expires_at") ELSE 0
    IN  ~(expires_at # 0 /\ expires_at > t + 60)

\* the guard of refresh_token_if_needed: token data and client config truthy
HasCredentials(ss) ==
    /\ Has(ss, "strava_token_data") /\ TruthyDict(Val(ss, "strava_token_data"))
    /\ Has(ss, "client_config")

\* faulty variant: the failed refresh reruns without deleting the session
RefreshFailed_KeepsSession(ss) ==
    [ss |-> ss, posts |-> <<"refresh">>, failed |-> TRUE, ret |-> None, rerun |-> TRUE]

\* the except branch of refresh_token_if_needed: every key deleted, st.rerun()
RefreshFailed(ss) ==
    [ss |-> ClearSession(ss), posts |-> <<"refresh">>, failed |-> TRUE, ret |-> None,
     rerun |-> TRUE]

\* the try branch: the response replaces the token data
RefreshOk(ss, body) ==
    [ss |-> Put(ss, "strava_token_data", body), posts |-> <<"refresh">>, failed |-> FALSE,
     ret |-> Some(body), rerun |-> FALSE]

\* the two early returns: nothing is requested, nothing changes
RefreshSkipped(ss) ==
    [ss |-> ss, posts |-> <<>>, failed |-> FALSE, ret |-> None, rerun |-> FALSE]

refresh_token_if_needed(ss, t, resp) ==
    IF ~HasCredentials(ss) THEN RefreshSkipped(ss)
    ELSE IF ~NeedsRefresh(Val(ss, "strava_token_data"), t) THEN RefreshSkipped(ss)
    ELSE IF resp.ok THEN RefreshOk(ss, resp.body[1])
    ELSE RefreshFailed(ss)

\* faulty variant: the client configuration is not stored
LoginSucceeded_NoConfig(ss, token_data, client_id, client_secret) ==
    Pop(Pop(Put(Put(ss, "strava_token_data", token_data), "logged_in", TRUE), "auth_url"),
        "client_id_pending")

\* lines 112-121: the session after a successful exchange
LoginSucceeded(ss, token_data, client_id, client_secret) ==
    LET s1 == Put(ss, "strava_token_data", token_data)
        s2 == Put(s1, "logged_in", TRUE)
        s3 == Put(s2, "client_config",
                  [client_id |-> client_id, client_secret |-> client_secret,
                   redirect_uri |-> DEFAULT_REDIRECT_URI])
    IN  Pop(Pop(s3, "auth_url"), "client_id_pending")

\* faulty variant: a failed exchange clears the query parameters too
AfterExchange_ClearsOnFailure(ss, qp, ret, client_id, client_secret) ==
    IF TokenAccepted(ret)
    THEN [ss |-> LoginSucceeded(ss, ret[1], client_id, client_secret),
          qp |-> NoParams, rerun |-> TRUE]
    ELSE [ss |-> ss, qp |-> NoParams, rerun |-> FALSE]

\* lines 111-124: what step 2 does with the value the exchange returned
AfterExchange(ss, qp, ret, client_id, client_secret) ==
    IF TokenAccepted(ret)
    THEN [ss |-> LoginSucceeded(ss, ret[1], client_id, client_secret),
          qp |-> NoParams, rerun |-> TRUE]
    ELSE [ss |-> ss, qp |-> qp, rerun |-> FALSE]

\* query_params.get("client_id") or session_state.get("client_id_pending") or DEFAULT_CLIENT_ID
Step2ClientId(ss, qp, sec) ==
    IF Has(qp, "client_id") /\ TruthyStr(Val(qp, "client_id")) THEN Val(qp, "client_id")
    ELSE IF Has(ss, "client_id_pending") /\ TruthyStr(Val(ss, "client_id_pending"))
         THEN Val(ss, "client_id_pending")
    ELSE sec.CLIENT_ID

\* expected_state and state and state != expected_state
StateMismatch(ss, qp) ==
    /\ Has(ss, "oauth_state") /\ TruthyStr(Val(ss, "oauth_state"))
    /\ Has(qp, "state") /\ TruthyStr(Val(qp, "state"))
    /\ Val(qp, "state") # Val(ss, "oauth_state")

\* faulty variant: a state that differs from the expected one blocks the exchange
LoginStep2_BlocksOnMismatch(ss, qp, sec, trig, typed, resp) ==
    LET client_id == Step2ClientId(ss, qp, sec)
        has_secret == TruthyStr(sec.CLIENT_SECRET)
        client_secret == IF has_secret THEN sec.CLIENT_SECRET ELSE typed
        do_login == trig = "login"
        base == [ss |-> ss, qp |-> qp, rerun |-> FALSE, rendered |-> {"login"},
                 page |-> "login_step2", posts |-> <<>>, post_failed |-> FALSE,
                 exchange_ret |-> None, exchanged |-> FALSE,
                 warned |-> StateMismatch(ss, qp)]
    IN  IF ~do_login \/ ~TruthyStr(client_secret) \/ StateMismatch(ss, qp) THEN base
        ELSE LET x == exchange_code_for_token(resp)
                 a == AfterExchange(ss, qp, x.ret, client_id, client_secret)
             IN  [base EXCEPT !.ss = a.ss, !.qp = a.qp, !.rerun = a.rerun,
                              !.posts = x.posts, !.post_failed = (x.ret = None),
                              !.exchange_ret = x.ret, !.exchanged = TRUE]

\* lines 83-124: "code" in query_params
LoginStep2(ss, qp, sec, trig, typed, resp) ==
    LET client_id == Step2ClientId(ss, qp, sec)
        has_secret == TruthyStr(sec.CLIENT_SECRET)
        client_secret == IF has_secret THEN sec.CLIENT_SECRET ELSE typed
        do_login == trig = "login"
        base == [ss |-> ss, qp |-> qp, rerun |-> FALSE, rendered |-> {"login"},
                 page |-> "login_step2", posts |-> <<>>, post_failed |-> FALSE,
                 exchange_ret |-> None, exchanged |-> FALSE,
                 warned |-> StateMismatch(ss, qp)]
    IN  IF ~do_login \/ ~TruthyStr(client_secret) THEN base
        ELSE LET x == exchange_code_for_token(resp)
                 a == AfterExchange(ss, qp, x.ret, client_id, client_secret)
             IN  [base EXCEPT !.ss = a.ss, !.qp = a.qp, !.rerun = a.rerun,
                              !.posts = x.posts, !.post_failed = (x.ret = None),
                              !.exchange_ret = x.ret, !.exchanged = TRUE]

\* lines 137-150: the button "Gerar link de autorização"
GenerateLink(ss, client_id_input) ==
    IF TruthyStr(client_id_input)
    THEN Put(Put(ss, "auth_url",
                 [client_id |-> client_id_input, state |-> Val(ss, "oauth_state")]),
             "client_id_pending", client_id_input)
    ELSE ss

\* lines 127-155: no "code" in query_params
LoginStep1(ss, qp, sec, trig, typed) ==
    LET client_id_input == IF TruthyStr(sec.CLIENT_ID) THEN sec.CLIENT_ID ELSE typed
        s1 == IF trig = "gerar" THEN GenerateLink(ss, client_id_input) ELSE ss
    IN  [ss |-> s1, qp |-> qp, rerun |-> FALSE, rendered |-> {"gerar"},
         page |-> "login_step1", posts |-> <<>>, post_failed |-> FALSE,
         exchange_ret |-> None, exchanged |-> FALSE, warned |-> FALSE]

\* faulty variant: step 2 only for a callback that carries a state
IsStep2_NeedsState(qp) == Has(qp, "code") /\ Has(qp, "state")

\* which step show_login_page renders
IsStep2(qp) == Has(qp, "code")

show_login_page(ss, qp, sec, trig, typed, resp, new_state) ==
    LET s0 == IF ~Has(ss, "oauth_state") THEN Put(ss, "oauth_state", new_state) ELSE ss
    IN  IF IsStep2(qp) THEN LoginStep2(s0, qp, sec, trig, typed, resp)
        ELSE LoginStep1(s0, qp, sec, trig, typed)

\* What a script run did, before it has done anything.  seq alternates
\* between 0 and 1 from one run to the next; after_refresh is the session
\* refresh_token_if_needed left and refresh_ret the body it responses;
\* dash_token and dash_state are the argument of show_main_dashboard and
\* the session it was called in.
BlankRun ==
    [seq |-> 0, trigger |-> "none", page |-> "none", had_code |-> FALSE,
     logged_in |-> FALSE, posts |-> <<>>, post_failed |-> FALSE, exchanged |-> FALSE,
     exchange_ret |-> None, warned |-> FALSE, after_refresh |-> None,
     refresh_ret |-> None, dash_token |-> None, dash_state |-> None, outcome |-> "end"]

\* lines 190-195: the run after refresh_token_if_needed returned
\* (a missing key in line 190 raises KeyError and ends the run)
DashboardAndLogout(ss, trig, dash, obs) ==
    IF ~(Has(ss, "strava_token_data") /\ Has(Val(ss, "strava_token_data"), "access_token"))
    THEN [ss |-> ss, rerun |-> FALSE, rendered |-> {}, obs |-> [obs EXCEPT !.outcome = "exception"]]
    ELSE LET called == [obs EXCEPT !.page = "dashboard",
                                   !.dash_token = Val(ss, "strava_token_data").access_token,
                                   !.dash_state = Some([logged_in |-> LoggedIn(ss),
                                                        token |-> Has(ss, "strava_token_data"),
                                                        config |-> Has(ss, "client_config")])]
         IN  IF dash # "ok"
             THEN [ss |-> ss, rerun |-> FALSE, rendered |-> {},
                   obs |-> [called EXCEPT !.outcome = "stop"]]
             ELSE IF trig = "logout"
             THEN [ss |-> ClearSession(ss), rerun |-> TRUE, rendered |-> {"logout"},
                   obs |-> [called EXCEPT !.outcome = "rerun"]]
             ELSE [ss |-> ss, rerun |-> FALSE, rendered |-> {"logout"}, obs |-> called]

\* lines 188-195: the branch of a logged-in session
LoggedInRun(ss, t, trig, resp, dash, obs) ==
    LET r == refresh_token_if_needed(ss, t, resp)
        o == [obs EXCEPT !.posts = r.posts, !.post_failed = r.failed,
                         !.after_refresh = Some(r.ss), !.refresh_ret = r.ret]
    IN  IF r.rerun
        THEN [ss |-> r.ss, rerun |-> TRUE, rendered |-> {}, obs |-> [o EXCEPT !.outcome = "rerun"]]
        ELSE DashboardAndLogout(r.ss, trig, dash, o)

\* lines 196-197: the branch of a session that is not logged in
LoginRun(ss, qp, sec, trig, typed, resp, new_state, obs) ==
    LET p == show_login_page(ss, qp, sec, trig, typed, resp, new_state)
    IN  [ss |-> p.ss, qp |-> p.qp, rerun |-> p.rerun, rendered |-> p.rendered,
         obs |-> [obs EXCEPT !.page = p.page, !.posts = p.posts,
                             !.post_failed = p.post_failed, !.exchanged = p.exchanged,
                             !.exchange_ret = p.exchange_ret, !.warned = p.warned,
                             !.outcome = IF p.rerun THEN "rerun" ELSE "end"]]

\* lines 185-197: one run of the script login.py
Script(ss, qp, t, sec, trig, typed, resp, new_state, dash) ==
    LET s0 == IF ~Has(ss, "logged_in") THEN Put(ss, "logged_in", FALSE) ELSE ss
        obs == [BlankRun EXCEPT !.seq = 1 - run.seq, !.trigger = trig,
                                !.had_code = Has(qp, "code"), !.logged_in = LoggedIn(s0)]
    IN  IF LoggedIn(s0)
        THEN LET r == LoggedInRun(s0, t, trig, resp, dash, obs)
             IN  [ss |-> r.ss, qp |-> qp, rerun |-> r.rerun, rendered |-> r.rendered,
                  obs |-> r.obs]
        ELSE LoginRun(s0, qp, sec, trig, typed, resp, new_state, obs)

-----------------------------------------------------------------------------
(* The session: what starts a script run                                   *)

\* The inputs a run reads.  An input the run cannot read is not drawn: the
\* text input is read only when a login-page button is pressed, the token
\* endpoint answers only a logged-in run (refresh) or a pressed login button
\* (exchange), a state token is drawn only when the session has none, and
\* the dashboard is called only in a logged-in run.
TypedInputs(trig) == IF trig \in {"gerar", "login"} THEN TypedTexts ELSE {""}

ResponseInputs(ss, trig) ==
    IF LoggedIn(ss) \/ trig = "login" THEN HttpResponses
    ELSE {FailedResponse}

StateInputs(ss) == IF Has(ss, "oauth_state") \/ LoggedIn(ss) THEN {"s1"} ELSE StateTokens

DashInputs(ss) == IF LoggedIn(ss) THEN DashOutcomes ELSE {"ok"}

\* one script run on session ss with query string qp, started by trig
ScriptRun(ss, qp, trig) ==
    \E dash \in DashInputs(ss), typed \in TypedInputs(trig),
       resp \in ResponseInputs(ss, trig), new_state \in StateInputs(ss) :
        LET r == Script(ss, qp, now, secrets, trig, typed, resp, new_state, dash)
        IN  /\ session_state' = r.ss
            /\ query_params' = r.qp
            /\ pending' = r.rerun
            /\ rendered' = r.rendered
            /\ run' = r.obs
            /\ UNCHANGED <<now, secrets, fetchVars, tratarVars, cacheVars>>

\* the browser loads the page: a new session with the URL's query string
OpenPage ==
    /\ ~pending
    /\ \E qp \in QueryStrings : ScriptRun(EmptySession, qp, "load")

\* the user presses a button the last run rendered
ClickGerarLink ==
    /\ ~pending /\ "gerar" \in rendered
    /\ ScriptRun(session_state, query_params, "gerar")

ClickLogin ==
    /\ ~pending /\ "login" \in rendered
    /\ ScriptRun(session_state, query_params, "login")

ClickLogout ==
    /\ ~pending /\ "logout" \in rendered
    /\ ScriptRun(session_state, query_params, "logout")

\* another widget changes, or the user asks for a rerun
WidgetRerun ==
    /\ ~pending /\ run.trigger # "none"
    /\ ScriptRun(session_state, query_params, "widget")

\* st.rerun(): the script runs again at once, no button pressed
Rerun ==
    /\ pending
    /\ ScriptRun(session_state, query_params, "rerun")

\* time passes
Tick ==
    /\ ~pending /\ now < 30 * MaxTicks
    /\ now' = now + 30
    /\ UNCHANGED <<session_state, query_params, secrets, pending, rendered, run>>
    /\ UNCHANGED <<fetchVars, tratarVars, cacheVars>>

InitLogin ==
    /\ session_state = EmptySession
    /\ query_params = NoParams
    /\ now = 0
    /\ secrets \in SecretsSets
    /\ pending = FALSE
    /\ rendered = {}
    /\ run = BlankRun

NextLogin ==
    \/ OpenPage
    \/ ClickGerarLink
    \/ ClickLogin
    \/ ClickLogout
    \/ WidgetRerun
    \/ Rerun
    \/ Tick

-----------------------------------------------------------------------------
(* app_strava.py: carregar_todas_atividades                                *)

\* the most pages of activities the server holds
MaxPages == 3

\* the activities are numbered 1..MaxAct
MaxAct == 2

per_page == 100

\* a non-empty page: one or two activities
PageBodies ==
    {<<a>> : a \in 1..MaxAct} \cup {<<a, b>> : a \in 1..MaxAct, b \in 1..MaxAct}

\* what GET answers for page p: an error, an empty list, or a non-empty page
PageResponses(p) ==
    {[ok |-> FALSE, json |-> <<>>], [ok |-> TRUE, json |-> <<>>]}
    \cup (IF p <= MaxPages THEN {[ok |-> TRUE, json |-> b] : b \in PageBodies} ELSE {})

\* pd.DataFrame(todas_atividades): one row per activity, in order
DataFrame(atividades) == [index |-> 1..Len(atividades), rows |-> atividades]

\* faulty variant: the page replaces what was collected
Extend_Overwrite(atividades, dados_pagina) == dados_pagina

\* line 112: todas_atividades.extend(dados_pagina)
Extend(atividades, dados_pagina) == atividades \o dados_pagina

\* faulty variant: the page number does not advance
NextPagina_Stuck(p) == p

\* line 113: pagina += 1
NextPagina(p) == p + 1

\* line 115: the except branch
FetchError(p) ==
    [data |-> None, erro |-> Some([text |-> "Erro ao buscar atividades", pagina |-> Some(p)])]

\* `if not dados_pagina: break`
PageIsEmpty(dados_pagina) == Len(dados_pagina) = 0

\* faulty variant: no check for an empty list
FetchReturn_NoEmptyCheck(atividades) ==
    [data |-> Some(DataFrame(atividades)), erro |-> None]

\* lines 117-121: after the loop
FetchReturn(atividades) ==
    IF Len(atividades) = 0
    THEN [data |-> None,
          erro |-> Some([text |-> "Nenhuma atividade encontrada.", pagina |-> None])]
    ELSE [data |-> Some(DataFrame(atividades)), erro |-> None]

\* lines 104-121: one iteration of `while True`, and what follows the loop
\* when the iteration leaves it
FetchPage ==
    /\ resultado = None
    /\ \E resp \in PageResponses(pagina) :
        /\ requests' = Append(requests, [page |-> pagina, per_page |-> per_page])
        /\ responses' = Append(responses, resp)
        /\ IF ~resp.ok
           THEN /\ resultado' = Some(FetchError(pagina))
                /\ UNCHANGED <<pagina, todas_atividades>>
           ELSE IF PageIsEmpty(resp.json)
           THEN /\ resultado' = Some(FetchReturn(todas_atividades))
                /\ UNCHANGED <<pagina, todas_atividades>>
           ELSE /\ todas_atividades' = Extend(todas_atividades, resp.json)
                /\ pagina' = NextPagina(pagina)
                /\ UNCHANGED resultado
    /\ UNCHANGED <<loginVars, tratarVars, cacheVars>>

\* lines 100-102: the locals when the loop is entered
InitFetch ==
    /\ pagina = 1
    /\ todas_atividades = <<>>
    /\ requests = <<>>
    /\ responses = <<>>
    /\ resultado = None

NextFetch == FetchPage

-----------------------------------------------------------------------------
(* app_strava.py: tratar_dados                                             *)

\* distances in decimetres (the API's resolution), around every limit of
\* the classification
Limits == {490, 520, 990, 1020, 2100, 2130, 4200, 4240}

DistancesDm ==
    {0, 30000, 50000, 100000, 210975, 421950, 500000}
    \cup UNION {{l * 100 - 51, l * 100 - 50, l * 100 - 49, l * 100, l * 100 + 49} : l \in Limits}

Names ==
    {<<"P", "r", "o", "v", "a">>,
     <<"p", "r", "o", "v", "a", " ", "1", "0", "k">>,
     <<"A", "P", "R", "O", "V", "A", "D", "O">>,
     <<"L", "o", "n", "g", "o">>,
     <<"p", "r", "o", "v">>,
     <<"p", "r", "o", " ", "v", "a">>,
     <<>>}

\* average_speed in millimetres per second (the API's resolution); None is
\* a null of the API (NaN in the frame)
Speeds ==
    {None} \cup {Some(v) : v \in {-1000, 0, 1, 2, 100, 1000, 2778, 2800, 3000,
                                  3333, 16667, 20000}}

\* the activities: workout_type is None where the API sent null (NaN in
\* the frame); has_workout_type says whether df_bruto has the column
Rows ==
    {r \in [distance : DistancesDm, type : {"Run", "Ride", "TrailRun"},
            has_workout_type : BOOLEAN, workout_type : {None} \cup {Some(n) : n \in 0..2},
            name : Names, average_speed : Speeds] :
        ~r.has_workout_type => r.workout_type = None}

\* str.lower() of one character
LowerChar(c) ==
    CASE c = "P" -> "p" [] c = "R" -> "r" [] c = "O" -> "o" [] c = "V" -> "v"
      [] c = "A" -> "a" [] c = "D" -> "d" [] c = "L" -> "l" [] OTHER -> c

\* str.lower()
Lower(s) == [i \in 1..Len(s) |-> LowerChar(s[i])]

\* `sub in s` for strings
Contains(s, sub) ==
    \E i \in 0..(Len(s) - Len(sub)) : SubSeq(s, i + 1, i + Len(sub)) = sub

\* lines 178-179: a missing column is filled with its default
WorkoutType(r) == IF r.has_workout_type THEN r.workout_type ELSE Some(0)

\* line 181: (distance / 1000).round(2), in hundredths of a kilometre.  A
\* distance halfway between two hundredths rounds to either: the binary
\* product decides (4.895 gives 4.89, 5.195 gives 5.2).
Round2(distance) ==
    LET q == distance \div 100
        rest == distance % 100
    IN  IF rest < 50 THEN {q} ELSE IF rest > 50 THEN {q + 1} ELSE {q, q + 1}

\* line 204
IsRace(r) == WorkoutType(r) = Some(1) \/ Contains(Lower(r.name), <<"p", "r", "o", "v", "a">>)

\* faulty variant: the upper limits are inclusive
RaceLabel_Inclusive(dist) ==
    IF 490 <= dist /\ dist <= 520 THEN "5k"
    ELSE IF 990 <= dist /\ dist <= 1020 THEN "10k"
    ELSE IF 2100 <= dist /\ dist <= 2130 THEN "Meia Maratona"
    ELSE IF 4200 <= dist /\ dist <= 4240 THEN "Maratona"
    ELSE "Distância não padrão"

\* lines 208-217: the label of a race of dist hundredths of a kilometre
RaceLabel(dist) ==
    IF 490 <= dist /\ dist < 520 THEN "5k"
    ELSE IF 990 <= dist /\ dist < 1020 THEN "10k"
    ELSE IF 2100 <= dist /\ dist < 2130 THEN "Meia Maratona"
    ELSE IF 4200 <= dist /\ dist < 4240 THEN "Maratona"
    ELSE "Distância não padrão"

\* lines 203-217
classificar_corrida_prova(r, distancia_km) ==
    IF ~IsRace(r) \/ r.type # "Run" THEN "Não é prova"
    ELSE RaceLabel(distancia_km)

\* line 184: (average_speed * 3.6).round(2), in hundredths of a km/h; NaN
\* stays NaN.  36 * v is never halfway between two multiples of 100, so
\* the rounding has no tie.
vel_media_kmh(r) ==
    IF r.average_speed = None THEN None
    ELSE Some((36 * r.average_speed[1] + 50) \div 100)

\* a pace in minutes per kilometre, as the fraction num / den with den > 0
Zero == [num |-> 0, den |-> 1]

\* lines 185-187: 0.0, replaced by 60 / vel_media_kmh where the mask
\* vel_media_kmh > 0 holds (NaN > 0 is False)
pace_min_km(vel) ==
    IF vel # None /\ vel[1] > 0 THEN [num |-> 6000, den |-> vel[1]] ELSE Zero

\* str() of one decimal digit
DigitChar(d) ==
    CASE d = 0 -> "0" [] d = 1 -> "1" [] d = 2 -> "2" [] d = 3 -> "3" [] d = 4 -> "4"
      [] d = 5 -> "5" [] d = 6 -> "6" [] d = 7 -> "7" [] d = 8 -> "8" [] OTHER -> "9"

\* str() of a natural number
RECURSIVE Digits(_)
Digits(n) == IF n < 10 THEN <<DigitChar(n)>> ELSE Append(Digits(n \div 10), DigitChar(n % 10))

\* the format specification 02: at least two digits, padded with zeros
Pad2(n) == IF n < 10 THEN <<"0">> \o Digits(n) ELSE Digits(n)

\* line 192: int(pace_decimal) of a positive pace
Minutos(pace) == pace.num \div pace.den

\* faulty variant: the seconds are not reduced modulo 60
Segundos_NoMod(pace) == (pace.num * 60) \div pace.den

\* line 193: int((pace_decimal * 60) % 60)
Segundos(pace) == ((pace.num * 60) \div pace.den) % 60

\* lines 189-194
formatar_pace(pace_decimal) ==
    IF pace_decimal.num <= 0 THEN <<"N", "/", "A">>
    ELSE Pad2(Minutos(pace_decimal)) \o <<":">> \o Pad2(Segundos(pace_decimal))
            \o <<" ", "m", "i", "n", "/", "k", "m">>

\* lines 164-240, the columns modelled
tratar_dados(r, distancia_km) ==
    [distancia_km |-> distancia_km,
     workout_type |-> WorkoutType(r),
     vel_media_kmh |-> vel_media_kmh(r),
     pace_min_km |-> pace_min_km(vel_media_kmh(r)),
     pace_formatado |-> formatar_pace(pace_min_km(vel_media_kmh(r))),
     tipo_corrida |-> classificar_corrida_prova(r, distancia_km)]

TratarDados ==
    /\ tratado = None
    /\ \E d \in Round2(row.distance) : tratado' = Some(tratar_dados(row, d))
    /\ UNCHANGED <<row, loginVars, fetchVars, cacheVars>>

InitTratar ==
    /\ row \in Rows
    /\ tratado = None

NextTratar == TratarDados

-----------------------------------------------------------------------------
(* app_strava.py: the API loaders behind st.cache_data                     *)

\* the functions decorated with st.cache_data(ttl=...)
Loaders ==
    {"carregar_dados_atleta", "carregar_clima", "carregar_todas_atividades",
     "carregar_detalhes_atividade"}

\* the ttl of each decorator, in seconds
ttl_atleta == 86400

ttl_clima == 900

ttl_atividades == 3600

ttl_detalhes == 3600

ttl(f) ==
    CASE f = "carregar_dados_atleta" -> ttl_atleta
      [] f = "carregar_clima" -> ttl_clima
      [] f = "carregar_todas_atividades" -> ttl_atividades
      [] OTHER -> ttl_detalhes

\* the clock advances by half a ttl at a time, this many times at most
MaxHalves == 4

URL_BASE == "https://www.strava.com/api/v3"

\* the access tokens a session can hold
Tokens == {b.access_token[1] : b \in TokenBodies}

\* the city of the athlete's profile: dados_atleta.get("city")
Cities == {None, Some("Recife")}

ActivityIds == {"id1"}

\* the arguments show_main_dashboard calls f with, in a session whose
\* access token is token (HEADERS carries the token)
CallArgs(f, token) ==
    CASE f = "carregar_dados_atleta" -> {<<"/athlete", token>>}
      [] f = "carregar_clima" -> {<<c>> : c \in Cities}
      [] f = "carregar_todas_atividades" -> {<<"/athlete/activities", token>>}
      [] OTHER -> {<<id, token, URL_BASE>> : id \in ActivityIds}

\* every tuple of arguments f can be called with
Keys(f) == UNION {CallArgs(f, t) : t \in Tokens}

\* What the body of f does when it runs: whether it issues an HTTP request,
\* and the value it returns.  The loaders of the Strava API return a pair
\* (data, error); carregar_clima returns a text, and issues no request
\* without a city.
Body(f, args) ==
    CASE f = "carregar_dados_atleta" ->
            {[requested |-> TRUE, value |-> [data |-> Some("atleta"), erro |-> None]],
             [requested |-> TRUE,
              value |-> [data |-> None, erro |-> Some("Erro ao buscar dados do atleta")]]}
      [] f = "carregar_clima" ->
            IF args[1] = None
            THEN {[requested |-> FALSE, value |-> "Clima (cidade não informada)"]}
            ELSE {[requested |-> TRUE, value |-> "25°C, Sol"],
                  [requested |-> TRUE, value |-> "Dados de clima incompletos"],
                  [requested |-> TRUE, value |-> "Clima indisponível"]}
      [] f = "carregar_todas_atividades" ->
            {[requested |-> TRUE, value |-> [data |-> Some("df"), erro |-> None]],
             [requested |-> TRUE,
              value |-> [data |-> None, erro |-> Some("Erro ao buscar atividades")]],
             [requested |-> TRUE,
              value |-> [data |-> None, erro |-> Some("Nenhuma atividade encontrada.")]]}
      [] OTHER ->
            {[requested |-> TRUE, value |-> [data |-> Some("detalhes"), erro |-> None]],
             [requested |-> TRUE,
              value |-> [data |-> None, erro |-> Some("Erro ao buscar /activities/")]]}

\* the value is the pair (None, error) of a loader of the Strava API
IsError(f, value) == f # "carregar_clima" /\ value.data = None

\* faulty variant: an entry never expires
Fresh_NoExpiry(entry, t, f) == {TRUE}

\* ttl=...: whether an entry stored at entry.at may still be served at time
\* t.  It is served before the ttl has elapsed and not after; at the very
\* instant it elapses either can happen.
Fresh(entry, t, f) ==
    IF t - entry.at < ttl(f) THEN {TRUE}
    ELSE IF t - entry.at > ttl(f) THEN {FALSE}
    ELSE {TRUE, FALSE}

\* faulty variant: a pair (None, error) is not stored
Store_SkipErrors(f, old, t, value) ==
    IF IsError(f, value) THEN old ELSE Some([at |-> t, value |-> value])

\* st.cache_data stores whatever the function returned, with the time
Store(f, old, t, value) == Some([at |-> t, value |-> value])

\* What a call did, before any call.  seq alternates between 0 and 1 from
\* one call to the next; before is the entry the cache held for args.
BlankCall ==
    [seq |-> 0, args |-> None, at |-> 0, before |-> None, hit |-> FALSE,
     requested |-> FALSE, value |-> None]

\* show_main_dashboard (or a tab of it) calls the loader: the stored value
\* is returned, or the body runs and its value is stored
CallLoader ==
    /\ LoggedIn(session_state)
    /\ \E args \in CallArgs(loader, Val(session_state, "strava_token_data").access_token[1]) :
        LET e == cache[args]
            obs == [seq |-> 1 - call.seq, args |-> Some(args), at |-> now, before |-> e,
                    hit |-> FALSE, requested |-> FALSE, value |-> None]
        IN  \/ /\ IF e = None THEN FALSE ELSE TRUE \in Fresh(e[1], now, loader)
               /\ call' = [obs EXCEPT !.hit = TRUE, !.value = Some(e[1].value)]
               /\ UNCHANGED cache
            \/ /\ IF e = None THEN TRUE ELSE FALSE \in Fresh(e[1], now, loader)
               /\ \E b \in Body(loader, args) :
                    /\ cache' = [cache EXCEPT ![args] = Store(loader, e, now, b.value)]
                    /\ call' = [obs EXCEPT !.requested = b.requested, !.value = Some(b.value)]
    /\ UNCHANGED <<loginVars, fetchVars, tratarVars, loader>>

\* login.py, lines 112-121: a token exchange succeeded
CacheLogin ==
    /\ ~LoggedIn(session_state)
    /\ \E body \in TokenBodies :
        session_state' = LoginSucceeded(session_state, body, "cid0", "sec0")
    /\ UNCHANGED <<query_params, now, secrets, pending, rendered, run>>
    /\ UNCHANGED <<fetchVars, tratarVars, cacheVars>>

\* login.py, lines 192-195: the Logout button
CacheLogout ==
    /\ LoggedIn(session_state)
    /\ session_state' = ClearSession(session_state)
    /\ UNCHANGED <<query_params, now, secrets, pending, rendered, run>>
    /\ UNCHANGED <<fetchVars, tratarVars, cacheVars>>

\* time passes
Elapse ==
    /\ now < MaxHalves * (ttl(loader) \div 2)
    /\ now' = now + ttl(loader) \div 2
    /\ UNCHANGED <<session_state, query_params, secrets, pending, rendered, run>>
    /\ UNCHANGED <<fetchVars, tratarVars, cacheVars>>

\* a server that has just started: the cache is empty
InitCache ==
    /\ loader \in Loaders
    /\ cache = [k \in Keys(loader) |-> None]
    /\ call = BlankCall

NextCache ==
    \/ CallLoader
    \/ CacheLogin
    \/ CacheLogout
    \/ Elapse

-----------------------------------------------------------------------------
(* The specifications                                                      *)

\* the values of a part of the model that a specification leaves alone
IdleLogin ==
    /\ session_state = EmptySession
    /\ query_params = NoParams
    /\ now = 0
    /\ secrets = [CLIENT_ID |-> "", CLIENT_SECRET |-> ""]
    /\ pending = FALSE
    /\ rendered = {}
    /\ run = BlankRun

IdleTratar ==
    /\ row = CHOOSE r \in Rows : TRUE
    /\ tratado = None

IdleCache ==
    /\ loader = "carregar_dados_atleta"
    /\ cache = [k \in Keys(loader) |-> None]
    /\ call = BlankCall

Init == InitLogin /\ InitFetch /\ IdleTratar /\ IdleCache

Next == NextLogin

Spec == Init /\ [][Next]_vars

InitFetchSpec == IdleLogin /\ InitFetch /\ IdleTratar /\ IdleCache

SpecFetch == InitFetchSpec /\ [][NextFetch]_vars

\* the loop runs on: an iteration that can be taken is taken
SpecFetchFair == SpecFetch /\ WF_vars(FetchPage)

InitTratarSpec == IdleLogin /\ InitFetch /\ InitTratar /\ IdleCache

SpecTratar == InitTratarSpec /\ [][NextTratar]_vars

InitCacheSpec == IdleLogin /\ InitFetch /\ IdleTratar /\ InitCache

SpecCache == InitCacheSpec /\ [][NextCache]_vars

-----------------------------------------------------------------------------
(* Properties of the session (Spec)                                        *)

\* the step is a script run (a Tick leaves run alone)
IsRun == run'.seq # run.seq

LoginPages == {"login_step1", "login_step2"}

\* C1: logged_in becomes true only in a run that rendered step 2 of the
\* login page and in which exchange_code_for_token returned a non-empty
\* token response; whenever logged_in is true, strava_token_data and
\* client_config are both present in the session; and show_main_dashboard
\* is only ever called in such a session.
C1_LoggedInOnlyAfterExchange ==
    /\ [](LoggedIn(session_state) =>
            Has(session_state, "strava_token_data") /\ Has(session_state, "client_config"))
    /\ [](run.dash_state # None =>
            run.dash_state[1] = [logged_in |-> TRUE, token |-> TRUE, config |-> TRUE])
    /\ [][(~LoggedIn(session_state) /\ LoggedIn(session_state')) =>
            /\ run'.page = "login_step2"
            /\ run'.exchanged
            /\ run'.exchange_ret # None
            /\ TruthyDict(run'.exchange_ret[1])
            /\ session_state'.strava_token_data = run'.exchange_ret]_vars

C1_Witness ==
    /\ LoggedIn(session_state)
    /\ run.page = "dashboard"
    /\ run.dash_state # None

\* C2: in a run of a session that is not logged in, show_login_page renders
\* step 2 if and only if the query parameters contain "code", and step 1
\* otherwise; no token exchange request is issued in a run whose query
\* parameters have no "code".
C2_TwoStepFlow ==
    /\ (run.trigger # "none" /\ ~run.logged_in) =>
          /\ run.page = "login_step2" <=> run.had_code
          /\ run.page = "login_step1" <=> ~run.had_code
    /\ (\E i \in DOMAIN run.posts : run.posts[i] = "exchange") => run.had_code
    /\ run.exchanged => run.had_code

C2_Witness ==
    /\ run.page = "login_step2"
    /\ run.had_code
    /\ run.posts = <<"exchange">>

\* C3: no retry and no backoff.  A run issues at most one POST to the token
\* endpoint: exactly one when exchange_code_for_token is called, at most one
\* in refresh_token_if_needed.  When that request fails, the run issues no
\* other, a failed exchange starts no further run by itself, and the run
\* that st.rerun() starts after a failed refresh issues no token request.
C3_NoRetry ==
    /\ [](Len(run.posts) <= 1)
    /\ [](run.exchanged => run.posts = <<"exchange">>)
    /\ []((run.post_failed /\ run.exchanged) => ~pending)
    /\ [][(run.post_failed /\ IsRun /\ run'.trigger = "rerun") => run'.posts = <<>>]_vars

C3_Witness ==
    /\ run.trigger = "rerun"
    /\ run.posts = <<>>
    /\ run.page \in LoginPages
    /\ ~Has(session_state, "strava_token_data")
    /\ run.seq = 1

\* C4: when the token exchange of step 2 fails (exchange_code_for_token
\* returns None) the session is left as it was: logged_in stays false,
\* strava_token_data and client_config are not set, auth_url and
\* client_id_pending are not removed, the query parameters keep their
\* "code", no rerun is asked for, and the next run of the session shows
\* step 2 again.
C4_FailedExchangeChangesNothing ==
    /\ [][(IsRun /\ run'.exchanged /\ run'.exchange_ret = None) =>
            /\ session_state' = session_state
            /\ session_state'.logged_in = Some(FALSE)
            /\ ~Has(session_state', "strava_token_data")
            /\ ~Has(session_state', "client_config")
            /\ session_state'.auth_url = session_state.auth_url
            /\ session_state'.client_id_pending = session_state.client_id_pending
            /\ query_params' = query_params
            /\ Has(query_params', "code")
            /\ ~pending']_vars
    /\ [][(IsRun /\ run.exchanged /\ run.exchange_ret = None /\ run'.trigger # "load") =>
            run'.page = "login_step2"]_vars

C4_Witness ==
    /\ run.exchanged
    /\ run.exchange_ret = None
    /\ run.page = "login_step2"
    /\ ~LoggedIn(session_state)

\* the token expires within 60 s, in the words of C5
ExpiresSoon(token_data, t) ==
    \/ ~Has(token_data, "expires_at")
    \/ Val(token_data, "expires_at") = 0
    \/ Val(token_data, "expires_at") <= t + 60

\* C5: refresh_token_if_needed renews the token only when it is close to
\* expiry.  In a logged-in run, with strava_token_data and client_config
\* present in the session, the refresh request is issued if and only if
\* expires_at is missing or 0 or expires_at <= now + 60; when the token
\* does not expire soon (or token data or client config is absent) nothing
\* is requested and refresh_token_if_needed leaves the session as it found
\* it; a successful refresh replaces strava_token_data by the response and
\* leaves every other key.
C5_RefreshOnlyNearExpiry ==
    [][(IsRun /\ run'.logged_in) =>
        LET issued == run'.posts = <<"refresh">>
            before == session_state
            after == run'.after_refresh
            credentials == /\ Has(before, "strava_token_data")
                           /\ Has(before, "client_config")
        IN  /\ after # None
            /\ credentials =>
                 (issued <=> ExpiresSoon(Val(before, "strava_token_data"), now))
            /\ ~credentials => ~issued
            /\ ~issued => after[1] = before
            /\ (issued /\ ~run'.post_failed) =>
                 /\ run'.refresh_ret # None
                 /\ after[1].strava_token_data = run'.refresh_ret
                 /\ \A k \in SessionKeys \ {"strava_token_data"} :
                        after[1][k] = before[k]]_vars

C5_Witness ==
    /\ run.posts = <<"refresh">>
    /\ ~run.post_failed
    /\ run.refresh_ret # None
    /\ run.dash_token = Some("tokB")
    /\ session_state.strava_token_data = run.refresh_ret

\* C6: when the refresh request fails, refresh_token_if_needed deletes
\* every session-state key and reruns the script: the dashboard is not
\* called in that run, and the run that follows finds logged_in false and
\* renders the login page.
C6_FailedRefreshLogsOut ==
    /\ []((run.post_failed /\ run.posts = <<"refresh">>) =>
            /\ run.dash_token = None
            /\ run.dash_state = None
            /\ run.page = "none"
            /\ run.outcome = "rerun"
            /\ pending
            /\ \A k \in SessionKeys : ~Has(session_state, k))
    /\ [][(run.post_failed /\ run.posts = <<"refresh">> /\ IsRun) =>
            /\ run'.trigger = "rerun"
            /\ ~run'.logged_in
            /\ run'.page \in LoginPages
            /\ run'.dash_token = None
            /\ session_state'.logged_in = Some(FALSE)
            /\ ~Has(session_state', "strava_token_data")]_vars

C6_Witness ==
    /\ run.post_failed
    /\ run.posts = <<"refresh">>
    /\ run.logged_in
    /\ pending

\* C7: pressing Logout deletes every session-state key (token data, client
\* config, oauth_state, logged_in) and reruns; the run that follows finds
\* logged_in false and no token data and shows the login page; and a fresh
\* session always starts with logged_in false.
C7_LogoutClearsSession ==
    /\ [][(IsRun /\ run'.trigger = "logout") =>
            /\ \A k \in SessionKeys : ~Has(session_state', k)
            /\ pending']_vars
    /\ [][(IsRun /\ run.trigger = "logout") =>
            /\ run'.trigger = "rerun"
            /\ ~run'.logged_in
            /\ run'.page \in LoginPages
            /\ ~Has(session_state', "strava_token_data")]_vars
    /\ [](run.trigger = "load" => ~run.logged_in /\ session_state.logged_in = Some(FALSE))

-----------------------------------------------------------------------------
(* Properties of carregar_todas_atividades (SpecFetch)                     *)

RECURSIVE Flatten(_)
\* the concatenation of a sequence of pages
Flatten(pages) ==
    IF Len(pages) = 0 THEN <<>> ELSE Head(pages) \o Flatten(Tail(pages))

\* the bodies of the first n responses
Bodies(n) == [i \in 1..n |-> responses[i].json]

NonEmptyPage(resp) == resp.ok /\ Len(resp.json) > 0

Returned == resultado # None

\* C8: the pages are requested in the order 1, 2, 3, ... with per_page =
\* 100; the loop stops at the first page whose response is empty (every
\* earlier response is a non-empty page, and nothing is requested after an
\* empty one); and when no request failed and at least one page was not
\* empty, the result is (data, None) with data holding exactly the
\* concatenation, in page order, of the pages received before the empty one.
C8_AllPagesInOrder ==
    /\ Len(requests) = Len(responses)
    /\ \A i \in DOMAIN requests : requests[i] = [page |-> i, per_page |-> 100]
    /\ \A i \in 1..(Len(responses) - 1) : NonEmptyPage(responses[i])
    /\ Returned <=> (Len(responses) > 0 /\ ~NonEmptyPage(responses[Len(responses)]))
    /\ ~Returned => todas_atividades = Flatten(Bodies(Len(responses)))
    /\ (Returned /\ Len(responses) >= 2 /\ responses[Len(responses)].ok) =>
          /\ resultado[1].erro = None
          /\ resultado[1].data # None
          /\ resultado[1].data[1].rows = Flatten(Bodies(Len(responses) - 1))
          /\ resultado[1].data[1].index = 1..Len(Flatten(Bodies(Len(responses) - 1)))

C8_Witness ==
    /\ Returned
    /\ Len(responses) = 3
    /\ resultado[1].data # None
    /\ Len(resultado[1].data[1].rows) = 4

\* C9: the result is a pair of which exactly one component is None.  If
\* the request for page k fails, it is (None, error naming page k) and the
\* activities of pages 1..k-1 are not in it; if the first page is empty, it
\* is (None, "Nenhuma atividade encontrada."); data that is not None is
\* never empty.
C9_DataOrError ==
    Returned =>
        LET r == resultado[1]
            k == Len(responses)
        IN  /\ (r.data = None) # (r.erro = None)
            /\ ~responses[k].ok =>
                  /\ r.data = None
                  /\ r.erro = Some([text |-> "Erro ao buscar atividades", pagina |-> Some(k)])
            /\ (k = 1 /\ responses[1].ok) =>
                  /\ r.data = None
                  /\ r.erro = Some([text |-> "Nenhuma atividade encontrada.", pagina |-> None])
            /\ r.data # None => Len(r.data[1].rows) > 0

C9_Witness ==
    /\ Returned
    /\ Len(responses) = 3
    /\ ~responses[3].ok
    /\ Len(todas_atividades) > 0
    /\ resultado[1].data = None

-----------------------------------------------------------------------------
(* Properties of tratar_dados (SpecTratar)                                 *)

\* the names of Names that contain "prova" in some mix of cases
ProvaNames ==
    {<<"P", "r", "o", "v", "a">>,
     <<"p", "r", "o", "v", "a", " ", "1", "0", "k">>,
     <<"A", "P", "R", "O", "V", "A", "D", "O">>}

Labels ==
    {"Não é prova", "5k", "10k", "Meia Maratona", "Maratona", "Distância não padrão"}

\* C10: tipo_corrida is "Não é prova" unless the type is "Run" and
\* (workout_type == 1 or the name contains "prova", whatever the case); for
\* such a race of d = distancia_km the label is "5k" iff 4.9 <= d < 5.2,
\* "10k" iff 9.9 <= d < 10.2, "Meia Maratona" iff 21.0 <= d < 21.3,
\* "Maratona" iff 42.0 <= d < 42.4 and "Distância não padrão" otherwise;
\* every activity gets exactly one of the six labels.  (d in hundredths.)
C10_RaceClassification ==
    tratado # None =>
        LET t == tratado[1].tipo_corrida
            d == tratado[1].distancia_km
            race == /\ row.type = "Run"
                    /\ \/ (row.has_workout_type /\ row.workout_type = Some(1))
                       \/ row.name \in ProvaNames
        IN  /\ t \in Labels
            /\ ~race <=> t = "Não é prova"
            /\ race =>
                  /\ t = "5k" <=> (490 <= d /\ d < 520)
                  /\ t = "10k" <=> (990 <= d /\ d < 1020)
                  /\ t = "Meia Maratona" <=> (2100 <= d /\ d < 2130)
                  /\ t = "Maratona" <=> (4200 <= d /\ d < 4240)
                  /\ t = "Distância não padrão" <=>
                        ~(\/ (490 <= d /\ d < 520) \/ (990 <= d /\ d < 1020)
                          \/ (2100 <= d /\ d < 2130) \/ (4200 <= d /\ d < 4240))

C10_Witness ==
    /\ tratado # None
    /\ tratado[1].tipo_corrida = "Meia Maratona"
    /\ row.name = <<"A", "P", "R", "O", "V", "A", "D", "O">>
    /\ row.workout_type # Some(1)
    /\ tratado[1].distancia_km = 2100
    /\ row.distance = 209950

\* int() of one decimal digit
DigitVal(c) ==
    CASE c = "0" -> 0 [] c = "1" -> 1 [] c = "2" -> 2 [] c = "3" -> 3 [] c = "4" -> 4
      [] c = "5" -> 5 [] c = "6" -> 6 [] c = "7" -> 7 [] c = "8" -> 8 [] OTHER -> 9

\* the number a string of decimal digits denotes
RECURSIVE ParseNat(_)
ParseNat(s) ==
    IF s = <<>> THEN 0
    ELSE 10 * ParseNat(SubSeq(s, 1, Len(s) - 1)) + DigitVal(s[Len(s)])

DigitChars == {"0", "1", "2", "3", "4", "5", "6", "7", "8", "9"}

\* the position of the colon in a pace text
ColonAt(s) == CHOOSE i \in 1..Len(s) : s[i] = ":"

\* s is "MM:SS min/km": two digits of seconds, at least two digits of
\* minutes and no padding beyond two
IsPaceText(s) ==
    /\ \E i \in 1..Len(s) : s[i] = ":"
    /\ LET i == ColonAt(s)
       IN  /\ i >= 3
           /\ \A j \in 1..(i - 1) : s[j] \in DigitChars
           /\ i > 3 => s[1] # "0"
           /\ Len(s) = i + 9
           /\ s[i + 1] \in DigitChars /\ s[i + 2] \in DigitChars
           /\ SubSeq(s, i + 3, i + 9) = <<" ", "m", "i", "n", "/", "k", "m">>

\* the numbers MM and SS of a pace text
TextMM(s) == ParseNat(SubSeq(s, 1, ColonAt(s) - 1))

TextSS(s) == ParseNat(SubSeq(s, ColonAt(s) + 1, ColonAt(s) + 2))

\* C11: pace_min_km is 0 when vel_media_kmh <= 0 (or is NaN) and
\* 60 / vel_media_kmh otherwise; pace_formatado is "N/A" exactly when
\* pace_min_km <= 0, and otherwise "MM:SS min/km" with MM = floor(pace) and
\* SS = floor(60 * pace) mod 60, so that SS is in 0..59 and 60 * MM + SS is
\* the pace in whole seconds, rounded down.  (vel_media_kmh a number, in
\* hundredths; the pace as a fraction.)
C11_PaceFormat ==
    tratado # None =>
        LET vel == tratado[1].vel_media_kmh
            pace == tratado[1].pace_min_km
            text == tratado[1].pace_formatado
        IN  /\ pace.den > 0
            /\ (vel # None /\ vel[1] <= 0) => pace.num = 0
            /\ (vel # None /\ vel[1] > 0) => pace.num * vel[1] = 60 * 100 * pace.den
            /\ text = <<"N", "/", "A">> <=> pace.num <= 0
            /\ pace.num > 0 =>
                  /\ IsPaceText(text)
                  /\ LET mm == TextMM(text)
                         ss == TextSS(text)
                     IN  /\ mm * pace.den <= pace.num
                         /\ pace.num < (mm + 1) * pace.den
                         /\ ss \in 0..59
                         /\ (60 * mm + ss) * pace.den <= 60 * pace.num
                         /\ 60 * pace.num < (60 * mm + ss + 1) * pace.den

C11_Witness ==
    /\ tratado # None
    /\ row.average_speed = Some(2800)
    /\ tratado[1].vel_media_kmh = Some(1008)
    /\ tratado[1].pace_formatado =
          <<"0", "5", ":", "5", "7", " ", "m", "i", "n", "/", "k", "m">>

\* the query parameters a run reads: those the page was opened with, or
\* those the session already had
ParamsRead == IF run'.trigger = "load" THEN query_params' ELSE query_params

\* C13: a callback whose state parameter differs from the session's
\* oauth_state only produces a warning.  Step 2 is rendered all the same,
\* and the token exchange is performed when the user confirms the login
\* (with the server's client secret, whenever "Concluir login" is pressed);
\* without a state parameter there is no warning at all.
C13_StateMismatchOnlyWarns ==
    [][(IsRun /\ run'.had_code /\ ~run'.logged_in) =>
        LET differs == /\ Has(ParamsRead, "state")
                       /\ Has(session_state', "oauth_state")
                       /\ Val(ParamsRead, "state") # Val(session_state', "oauth_state")
        IN  /\ run'.page = "login_step2"
            /\ "login" \in rendered' \/ LoggedIn(session_state')
            /\ run'.warned <=> differs
            /\ run'.exchanged => run'.trigger = "login"
            /\ (run'.trigger = "login" /\ TruthyStr(secrets.CLIENT_SECRET)) =>
                  /\ run'.exchanged
                  /\ run'.posts = <<"exchange">>
                  /\ run'.exchange_ret # None => LoggedIn(session_state')]_vars

C13_Witness ==
    /\ run.warned
    /\ run.exchanged
    /\ run.exchange_ret # None
    /\ LoggedIn(session_state)
    /\ run.page = "login_step2"

\* C14: in every run of a logged-in session the Logout button is offered,
\* also when loading the athlete profile or the activity list fails.
C14_LogoutAlwaysOffered ==
    (run.page = "dashboard" /\ LoggedIn(session_state)) => "logout" \in rendered

-----------------------------------------------------------------------------
(* Termination of the pagination loop (SpecFetchFair)                      *)

\* the number of non-empty pages among the responses
NonEmptyCount == Cardinality({i \in DOMAIN responses : NonEmptyPage(responses[i])})

\* C15: the loop terminates when the server returns finitely many non-empty
\* pages or fails at some page; after n consecutive non-empty pages and an
\* empty one it has issued exactly n + 1 requests and issues no more.  The
\* loop has no cap of its own: as long as every page was non-empty it has
\* not returned and goes on to the next page.
C15_PaginationTerminates ==
    /\ <>Returned
    /\ [](Returned =>
            /\ \A i \in 1..(Len(responses) - 1) : NonEmptyPage(responses[i])
            /\ ~NonEmptyPage(responses[Len(responses)])
            /\ Len(requests) = NonEmptyCount + 1)
    /\ [](~Returned =>
            /\ NonEmptyCount = Len(responses)
            /\ pagina = Len(requests) + 1
            /\ ENABLED FetchPage)
    /\ [][Returned => UNCHANGED requests]_vars
    /\ [][~Returned => requests' = Append(requests, [page |-> pagina, per_page |-> per_page])]_vars

C15_Witness ==
    /\ Returned
    /\ Len(requests) = MaxPages + 1
    /\ responses[Len(responses)].ok
    /\ NonEmptyCount = MaxPages

-----------------------------------------------------------------------------
(* Properties of the cached loaders (SpecCache)                            *)

\* the step is a call of the loader
IsCall == call'.seq # call.seq

\* the seconds after which the result of a loader is no longer served
StatedTtl ==
    CASE loader = "carregar_dados_atleta" -> 86400
      [] loader = "carregar_clima" -> 900
      [] loader = "carregar_todas_atividades" -> 3600
      [] OTHER -> 3600

\* the loader's body has a request to issue for these arguments
\* (carregar_clima returns at once when it is given no city)
IssuesRequest(args) == ~(loader = "carregar_clima" /\ args[1] = None)

\* C12: the loaders are cached by time-to-live, keyed on their arguments
\* (athlete profile 86400 s, weather 900 s, activity list 3600 s, activity
\* details 3600 s).  A call with the arguments of a result stored less than
\* the ttl ago returns that result without an HTTP request; a call made
\* after the ttl has elapsed runs the function again, which issues its
\* request again, and stores the new result.  Nothing else changes the
\* cache: not a logout, not a token exchange, not the passing of time.
C12_CacheByTtl ==
    /\ [][IsCall =>
            LET args == call'.args[1]
                e == cache[args]
            IN  /\ (e # None /\ now - e[1].at < StatedTtl) =>
                      /\ call'.hit /\ ~call'.requested
                      /\ call'.value = Some(e[1].value)
                      /\ cache' = cache
                /\ (e # None /\ now - e[1].at > StatedTtl) =>
                      /\ ~call'.hit
                      /\ call'.requested <=> IssuesRequest(args)
                      /\ cache'[args] = Some([at |-> now, value |-> call'.value[1]])
                /\ e = None =>
                      /\ ~call'.hit
                      /\ call'.requested <=> IssuesRequest(args)
                /\ \A k \in DOMAIN cache : k # args => cache'[k] = cache[k]]_vars
    /\ [][~IsCall => cache' = cache]_vars

C12_Witness ==
    /\ loader = "carregar_clima"
    /\ call.before # None
    /\ call.at - call.before[1].at > ttl_clima
    /\ ~call.hit
    /\ call.requested
    /\ cache[call.args[1]] = Some([at |-> call.at, value |-> call.value[1]])

\* C16: a failed fetch is cached like a successful one.  When
\* carregar_dados_atleta, carregar_todas_atividades or
\* carregar_detalhes_atividade returns (None, error), the pair is stored,
\* and a later call with the same arguments within the ttl returns the same
\* pair without a new request; a call with other arguments (another access
\* token in the headers) that have no stored result issues a request.
C16_FailureIsCached ==
    /\ []((call.value # None /\ ~call.hit /\ IsError(loader, call.value[1])) =>
            cache[call.args[1]] = Some([at |-> call.at, value |-> call.value[1]]))
    /\ [][(IsCall /\ loader # "carregar_clima") =>
            LET args == call'.args[1]
                e == cache[args]
            IN  /\ (e # None /\ e[1].value.data = None /\ now - e[1].at < StatedTtl) =>
                      /\ call'.value = Some(e[1].value)
                      /\ call'.value[1].erro # None
                      /\ ~call'.requested
                      /\ cache' = cache
                /\ e = None => call'.requested]_vars

C16_Witness ==
    /\ loader = "carregar_todas_atividades"
    /\ call.hit
    /\ ~call.requested
    /\ call.value[1].data = None
    /\ call.before # None
    /\ call.at > call.before[1].at
    /\ call.value[1] = call.before[1].value

====
